---- MODULE Spec2Model ----
(***************************************************************************)
(* State-machine model of the SKEL alignment code:                         *)
(*   src/skel/alignment/aligner.py  SkelFitter (run_fit, optim,            *)
(*                                  fitting_loss)                          *)
(*   src/mot_loader.py              read_header, storage_to_numpy          *)
(*                                                                         *)
(* Conventions.  Python arrays are 0-based, TLA+ sequences are 1-based:    *)
(* frame t of the code is element t+1 here, pose channel c is element c+1. *)
(* The batch index i and the slice bounds i_start, i_end keep the code's   *)
(* 0-based, half-open values; Slice translates them.  A translation        *)
(* 3-vector and the vertex/joint sets of one frame are each one abstract   *)
(* value.  Real numbers are integers: parameter values live in 0..NVal-1,  *)
(* configuration weights are in units of 1/Scale.                          *)
(***************************************************************************)
EXTENDS Integers, Sequences, FiniteSets, TLC

\* ---------------------------------------------------------------- bounds
MaxT == 3
MaxBatch == 3
NQ == 4
NSrcQ == 5
NSrcBetas == 11
NVal == 2

\* ------------------------------------------------------ program constants
GlobalOrient == 3
NumBetasSkel == 10
num_betas == 10
Scale == 10000

\* Python None, for the names that otherwise hold a dict
None == [ none |-> TRUE ]

\* no optim call is running
NoStage == "None"

\* ---------------------------------------------------------------- helpers
Min(a, b) == IF a < b THEN a ELSE b

\* math.ceil(a / b) for positive integers
Ceil(a, b) == (a + b - 1) \div b

\* Python s[a:b] for 0 <= a, b
Slice(s, a, b) == SubSeq(s, a + 1, Min(b, Len(s)))

Last(s) == s[Len(s)]

RECURSIVE SumSeq(_)
SumSeq(s) == IF Len(s) = 0 THEN 0 ELSE s[1] + SumSeq(Tail(s))

RECURSIVE Concatenate(_)
\* np.concatenate over a list of per-batch arrays
Concatenate(ss) == IF Len(ss) = 0 THEN << >> ELSE ss[1] \o Concatenate(Tail(ss))

RECURSIVE Lcm1(_, _)
Lcm1(n, k) == IF \A d \in 1..n : k % d = 0 THEN k ELSE Lcm1(n, k + 1)

\* common denominator of every mean taken by fitting_loss
K == Lcm1(MaxT, 1) * NQ

\* --------------------------------------------------------------- configs
\* self.cfg as built by __init__ (the warm-start configuration)
cfg_init ==
  [ lr |-> 1 * Scale, max_iter |-> 25, num_steps |-> 10,
    line_search_fn |-> "None", rot_only |-> TRUE,
    l_verts |-> 1000, l_verts_loose |-> 0, l_time_loss |-> 100,
    l_joint |-> 0, l_scapula_loss |-> 0, l_spine_loss |-> 0,
    l_pose_loss |-> 0, pose_reg_factor |-> 10 * Scale ]

\* self.cfg_optim (the refinement configuration)
cfg_optim ==
  [ lr |-> 1000, max_iter |-> 10, num_steps |-> 10, rot_only |-> FALSE,
    l_verts_loose |-> 500 * Scale, l_joint |-> 100 * Scale,
    l_scapula_loss |-> 100, l_spine_loss |-> 10, l_pose_loss |-> 1,
    pose_reg_factor |-> 10 * Scale ]

\* cfg.update(other): the keys of other override, the rest is kept
CfgUpdate(c, other) ==
  [ k \in DOMAIN c \cup DOMAIN other |->
      IF k \in DOMAIN other THEN other[k] ELSE c[k] ]

\* ---------------------------------------------------------------- inputs
SrcKinds == {"const", "vary"}

\* poses_in: T x NSrcQ source (SMPL) pose
SrcPoses(kind, T) ==
  [ t \in 1..T |-> [ c \in 1..NSrcQ |->
      IF kind = "const" THEN 1 ELSE (t + c) % NVal ] ]

\* trans_in: T source translations
SrcTrans(kind, T) ==
  [ t \in 1..T |-> IF kind = "const" THEN 1 ELSE t % NVal ]

\* betas_in: at least 10 shape coefficients
SrcBetas == [ k \in 1..NSrcBetas |-> k % NVal ]

\* a result of an earlier alignment, as a caller passes it in skel_data_init
PriorInit(T) ==
  [ poses |-> [ t \in 1..T |-> [ c \in 1..NQ |-> (t * c) % NVal ] ],
    betas |-> [ t \in 1..T |-> [ k \in 1..NumBetasSkel |-> (t + k) % NVal ] ],
    trans |-> [ t \in 1..T |-> (t + 1) % NVal ] ]

VARIABLES
  pc, cfg,
  poses_in, betas_in, trans_in, batch_size, skel_data_init, force_recompute, debug,
  nb_frames, n_batch, i, i_start, i_end,
  poses_skel, betas_skel, trans_skel,
  verts, poses, betas, trans,
  stage, step_i, entry, loss_dict, call_log, ranges, res_dict,
  export_meshes, disable_viewer, fwd_log, outer_steps, caller,
  file, excess, out

fitvars ==
  << pc, cfg,
     poses_in, betas_in, trans_in, batch_size, skel_data_init, force_recompute, debug,
     nb_frames, n_batch, i, i_start, i_end,
     poses_skel, betas_skel, trans_skel,
     verts, poses, betas, trans,
     stage, step_i, entry, loss_dict, call_log, ranges, res_dict,
     export_meshes, disable_viewer, fwd_log, outer_steps, caller >>

loadvars == << file, excess, out >>

vars == << fitvars, loadvars >>


\* ------------------------------------------------ external body models
\* smplx forward pass: the source surface of one frame
SmplForward(pose, b, tr) == (SumSeq(pose) + SumSeq(b) + tr) % NVal

\* SKEL.forward: skinned surface and joints of one frame
SkelForward(pose, b, tr) ==
  [ skin_verts |-> (SumSeq(pose) + SumSeq(b) + tr) % NVal,
    joints     |-> (SumSeq(SubSeq(pose, 1, GlobalOrient)) + tr) % NVal ]

\* anat_joints: einsum of the source vertices with J_regressor_osim
AnatJoints(v) == [ t \in 1..Len(v) |-> v[t] ]

\* skel.alignment.losses: penalties on a batch of poses, in units of 1/K
SqChannel(p, ch) == SumSeq([ t \in 1..Len(p) |-> p[t][ch] * p[t][ch] ])

compute_scapula_loss(p) == SqChannel(p, NQ) * (K \div Len(p))

compute_spine_loss(p) == SqChannel(p, GlobalOrient + 1) * (K \div Len(p))

compute_pose_loss(p) ==
  SumSeq([ ch \in 1..NQ |-> SqChannel(p, ch) ]) * (K \div (Len(p) * NQ))

\* ----------------------------------------------------------- fitting_loss
\* poses * joint_mask with joint_mask[:, :3] = 1
MaskPoses(p) ==
  [ t \in 1..Len(p) |-> [ ch \in 1..NQ |->
      IF ch <= GlobalOrient THEN p[t][ch] ELSE 0 ] ]

\* sum of squared differences of two equally long vectors
SSE(a, b) == SumSeq([ t \in 1..Len(a) |-> (a[t] - b[t]) * (a[t] - b[t]) ])

\* sum over consecutive frames and channels of (poses[1:] - poses[:-1])^2
TimeSSE(p) ==
  SumSeq([ t \in 1..(Len(p) - 1) |-> SSE(p[t + 1], p[t]) ])

\* variant: the temporal term needs three frames
HasTimeLossLong(p) == Len(p) > 2

\* the guard of the temporal term
HasTimeLoss(p) == Len(p) > 1

\* loss_dict as fitting_loss builds it; every value is in units of 1/(Scale*K)
FittingLossDict(p, b, tr, v, c) ==
  LET B == Len(p)
      poses_in_ == IF c.rot_only THEN MaskPoses(p) ELSE p
      output == [ t \in 1..B |-> SkelForward(poses_in_[t], b[t], tr[t]) ]
      skin == [ t \in 1..B |-> output[t].skin_verts ]
      jnts == [ t \in 1..B |-> output[t].joints ]
      reg(w) == (c.pose_reg_factor * w) \div Scale
      base ==
        [ verts_loss       |-> c.l_verts * SSE(skin, v) * K,
          verts_loss_loose |-> c.l_verts_loose * SSE(skin, v) * (K \div B),
          joint_loss       |-> c.l_joint * SSE(jnts, AnatJoints(v)) * (K \div B),
          scapula_loss     |-> reg(c.l_scapula_loss) * compute_scapula_loss(poses_in_),
          spine_loss       |-> reg(c.l_spine_loss) * compute_spine_loss(poses_in_),
          pose_loss        |-> reg(c.l_pose_loss) * compute_pose_loss(p) ]
  IN  IF HasTimeLoss(p)
        THEN base @@ ("time_loss" :>
               c.l_time_loss * TimeSSE(p) * (K \div ((B - 1) * NQ)))
        ELSE base

RECURSIVE SumValues(_, _)
SumValues(d, keys) ==
  IF keys = {} THEN 0
  ELSE LET k == CHOOSE x \in keys : TRUE
       IN  d[k] + SumValues(d, keys \ {k})

\* loss = sum(loss_dict.values())
fitting_loss(p, b, tr, v, c) ==
  LET d == FittingLossDict(p, b, tr, v, c) IN SumValues(d, DOMAIN d)

\* ------------------------------------------------------------------ optim
\* variant: betas is handed to the optimizer as well
free_params_with_betas == {"trans", "poses", "betas"}

\* the parameter list run_fit hands to optim: [trans, poses]
free_params == {"trans", "poses"}

\* some term that goes through the forward model (verts_loss,
\* verts_loss_loose, joint_loss) has a non-zero weight
ForwardWeighted(c) ==
  c.l_verts # 0 \/ c.l_verts_loose # 0 \/ c.l_joint # 0

\* scapula_loss and spine_loss are computed from poses_in alone, each on its
\* own channel: channel ch has a non-zero weight in one of them
PoseInWeighted(c, ch) ==
  \/ c.l_scapula_loss * c.pose_reg_factor # 0 /\ ch = NQ
  \/ c.l_spine_loss * c.pose_reg_factor # 0 /\ ch = GlobalOrient + 1

\* variant: the rotation-only mask is not applied to the pose
PoseGradUnmasked(p, c, ch) ==
  \/ ForwardWeighted(c) \/ PoseInWeighted(c, ch)
  \/ /\ Len(p) > 1
     /\ c.l_time_loss # 0
     /\ \E t1, t2 \in 1..Len(p) : p[t1][ch] # p[t2][ch]
  \/ c.l_pose_loss * c.pose_reg_factor # 0

\* pose channel ch can receive a non-zero gradient from the loss
PoseGrad(p, c, ch) ==
  \/ /\ ForwardWeighted(c) \/ PoseInWeighted(c, ch)
     /\ ch <= GlobalOrient \/ ~c.rot_only
  \/ /\ HasTimeLoss(p)
     /\ c.l_time_loss # 0
     /\ \E t1, t2 \in 1..Len(p) : p[t1][ch] # p[t2][ch]
  \/ c.l_pose_loss * c.pose_reg_factor # 0

\* the outcomes of one optimizer.step(closure) that the model distinguishes
StepKinds == {"none", "all", "last"}

Moved(kind, B) ==
  IF kind = "none" THEN {} ELSE IF kind = "all" THEN 1..B ELSE {B}

LbfgsPoses(params, p, c, kind) ==
  IF "poses" \notin params THEN p
  ELSE [ t \in 1..Len(p) |-> [ ch \in 1..NQ |->
         IF t \in Moved(kind, Len(p)) /\ PoseGrad(p, c, ch)
           THEN (p[t][ch] + 1) % NVal ELSE p[t][ch] ] ]

LbfgsTrans(params, tr, c, kind) ==
  IF "trans" \notin params THEN tr
  ELSE [ t \in 1..Len(tr) |->
         IF t \in Moved(kind, Len(tr)) /\ ForwardWeighted(c)
           THEN (tr[t] + 1) % NVal ELSE tr[t] ]

LbfgsBetas(params, b, c, kind) ==
  IF "betas" \notin params THEN b
  ELSE [ t \in 1..Len(b) |-> [ k \in 1..Len(b[t]) |->
         IF t \in Moved(kind, Len(b)) /\ ForwardWeighted(c)
           THEN (b[t][k] + 1) % NVal ELSE b[t][k] ] ]


\* ---------------------------------------------------------------- run_fit
\* the branch "skel_data_init is None or force_recompute"
FromSource(init, force) == init = None \/ force

\* variant: every channel is copied from the source pose
InitPosesAll(p_in, T) ==
  [ t \in 1..T |-> [ ch \in 1..NQ |-> p_in[t][ch] ] ]

\* poses_skel = zeros; poses_skel[:, :3] = poses_in[:, :3]
InitPoses(p_in, T) ==
  [ t \in 1..T |-> [ ch \in 1..NQ |->
      IF ch <= GlobalOrient THEN p_in[t][ch] ELSE 0 ] ]

\* betas_skel[:] = betas_in[..., :10]
InitBetas(b_in, T) == [ t \in 1..T |-> Slice(b_in, 0, NumBetasSkel) ]

\* trans_skel = trans_in.copy()
InitTrans(t_in) == t_in

\* if batch_size > nb_frames: batch_size = nb_frames
ClampBatch(bs, T) == IF bs > T THEN T ELSE bs

\* the debug branch at the head of the loop body: "if i > 1: continue"
Skipped(dbg, k) == dbg /\ k > 1

BatchStart(k, bs) == k * bs

BatchEnd(k, bs, T) == Min((k + 1) * bs, T)

\* "i == 0 and not skel_data_init"
TwoStage(k, init) == k = 0 /\ init = None

\* value of a local that is not bound yet
Unset == << >>

EmptyRes == [ poses |-> << >>, betas |-> << >>, trans |-> << >> ]

\* out_keys += the per-frame mesh arrays when self.export_meshes (the static
\* face tables and the gender string are left out)
MeshRes == [ skel_v |-> << >>, skin_v |-> << >>, smpl_v |-> << >> ]

\* res_dict = {key: [] for key in out_keys}
ResInit(export) == IF export THEN EmptyRes @@ MeshRes ELSE EmptyRes

\* SKEL.forward(..., skelmesh=True): the skeleton mesh of one frame
SkelMeshVerts(pose, b, tr) == (SumSeq(pose) + tr + 1) % NVal

\* the skelmesh argument of the three SKEL.forward call sites
ClosureSkelmesh == TRUE

LossSkelmesh == FALSE

ExportSkelmesh == TRUE

Fwd(site, mesh) == [ site |-> site, skelmesh |-> mesh ]

\* "for step_i in trange(cfg.num_steps)" has run out
StepsDone(k, n) == k = n

\* the arrays the caller owns, as they are on entry of run_fit
CallerArrays(p_in, b_in, t_in, init) ==
  [ poses_in |-> p_in, betas_in |-> b_in, trans_in |-> t_in,
    skel_data_init |-> init ]

Init ==
  /\ pc = "idle"
  /\ cfg = cfg_init
  /\ poses_in = Unset /\ betas_in = Unset /\ trans_in = Unset
  /\ batch_size = 0 /\ skel_data_init = None
  /\ force_recompute = FALSE /\ debug = FALSE
  /\ nb_frames = 0 /\ n_batch = 0 /\ i = 0 /\ i_start = 0 /\ i_end = 0
  /\ poses_skel = Unset /\ betas_skel = Unset /\ trans_skel = Unset
  /\ verts = Unset /\ poses = Unset /\ betas = Unset /\ trans = Unset
  /\ stage = NoStage /\ step_i = 0 /\ entry = None
  /\ loss_dict = None /\ call_log = << >> /\ ranges = << >>
  /\ res_dict = EmptyRes
  /\ export_meshes \in BOOLEAN
  /\ disable_viewer \in BOOLEAN
  /\ fwd_log = {} /\ outer_steps = 0 /\ caller = None
  /\ file = None /\ excess = 0 /\ out = None

\* run_fit up to the head of the batch loop (lines 106-143)
RunFit ==
  /\ pc = "idle"
  /\ \E T \in 1..MaxT, kind \in SrcKinds, bs \in 1..MaxBatch,
        dbg \in BOOLEAN, has_init \in BOOLEAN, force \in BOOLEAN :
       LET init == IF has_init THEN PriorInit(T) ELSE None
           src  == FromSource(init, force)
       IN
       /\ has_init \/ ~force
       /\ poses_in' = SrcPoses(kind, T)
       /\ betas_in' = SrcBetas
       /\ trans_in' = SrcTrans(kind, T)
       /\ skel_data_init' = init
       /\ caller' = CallerArrays(SrcPoses(kind, T), SrcBetas, SrcTrans(kind, T), init)
       /\ force_recompute' = force
       /\ debug' = dbg
       /\ nb_frames' = T
       /\ poses_skel' = IF src THEN InitPoses(SrcPoses(kind, T), T) ELSE init.poses
       /\ betas_skel' = IF src THEN InitBetas(SrcBetas, T) ELSE init.betas
       /\ trans_skel' = IF src THEN InitTrans(SrcTrans(kind, T)) ELSE init.trans
       /\ batch_size' = ClampBatch(bs, T)
       /\ n_batch' = Ceil(T, ClampBatch(bs, T))
  /\ res_dict' = ResInit(export_meshes)
  /\ fwd_log' = {} /\ outer_steps' = 0
  /\ i' = 0 /\ i_start' = 0 /\ i_end' = 0
  /\ verts' = Unset /\ poses' = Unset /\ betas' = Unset /\ trans' = Unset
  /\ stage' = NoStage /\ step_i' = 0 /\ entry' = None
  /\ loss_dict' = None /\ call_log' = << >> /\ ranges' = << >>
  /\ pc' = "loop"
  /\ UNCHANGED << cfg, export_meshes, disable_viewer, loadvars >>

\* debug: "if i > 1: continue"
LoopSkip ==
  /\ pc = "loop" /\ i < n_batch
  /\ Skipped(debug, i)
  /\ i' = i + 1
  /\ UNCHANGED << pc, cfg, poses_in, betas_in, trans_in, batch_size,
                  skel_data_init, force_recompute, debug, nb_frames, n_batch,
                  i_start, i_end, poses_skel, betas_skel, trans_skel,
                  verts, poses, betas, trans, stage, step_i, entry,
                  loss_dict, call_log, res_dict, ranges, 
                  export_meshes, disable_viewer, fwd_log, outer_steps, caller, loadvars >>

\* lines 153-171: slice the batch, run SMPL, make the SKEL parameters
GetBatch ==
  /\ pc = "loop" /\ i < n_batch
  /\ ~Skipped(debug, i)
  /\ LET a == BatchStart(i, batch_size)
         b == BatchEnd(i, batch_size, nb_frames)
     IN
     /\ i_start' = a
     /\ i_end' = b
     /\ ranges' = Append(ranges, << a, b >>)
     /\ verts' = [ t \in 1..(b - a) |->
                   SmplForward(poses_in[a + t], Slice(betas_in, 0, num_betas),
                               trans_in[a + t]) ]
     /\ poses' = Slice(poses_skel, a, b)
     /\ betas' = Slice(betas_skel, a, b)
     /\ trans' = Slice(trans_skel, a, b)
  /\ pc' = "batch"
  /\ UNCHANGED << cfg, poses_in, betas_in, trans_in, batch_size,
                  skel_data_init, force_recompute, debug, nb_frames, n_batch, i,
                  poses_skel, betas_skel, trans_skel, stage, step_i, entry,
                  loss_dict, call_log, res_dict, 
                  export_meshes, disable_viewer, fwd_log, outer_steps, caller, loadvars >>

\* entry of self.optim(params, poses, betas, trans, verts, cfg)
OptimEnter(st, c) ==
  /\ stage' = st
  /\ step_i' = 0
  /\ entry' = [ poses |-> poses, betas |-> betas, trans |-> trans ]
  /\ call_log' = Append(call_log, [ batch |-> i, stage |-> st, cfg |-> c ])
  /\ loss_dict' = None
  /\ pc' = "optim"

\* line 175-176: first optim call of the two-stage branch
StageA ==
  /\ pc = "batch"
  /\ TwoStage(i, skel_data_init)
  /\ OptimEnter("A", cfg)
  /\ UNCHANGED << cfg, poses_in, betas_in, trans_in, batch_size,
                  skel_data_init, force_recompute, debug, nb_frames, n_batch, i,
                  i_start, i_end, poses_skel, betas_skel, trans_skel,
                  verts, poses, betas, trans, res_dict, ranges, 
                  export_meshes, disable_viewer, fwd_log, outer_steps, caller, loadvars >>

\* line 177-178: cfg.update(self.cfg_optim), second optim call
StageB ==
  /\ pc = "optim" /\ stage = "A"
  /\ StepsDone(step_i, cfg.num_steps)
  /\ cfg' = CfgUpdate(cfg, cfg_optim)
  /\ OptimEnter("B", cfg')
  /\ UNCHANGED << poses_in, betas_in, trans_in, batch_size,
                  skel_data_init, force_recompute, debug, nb_frames, n_batch, i,
                  i_start, i_end, poses_skel, betas_skel, trans_skel,
                  verts, poses, betas, trans, res_dict, ranges, 
                  export_meshes, disable_viewer, fwd_log, outer_steps, caller, loadvars >>

\* line 180-182: the else branch, one optim call
Refine ==
  /\ pc = "batch"
  /\ ~TwoStage(i, skel_data_init)
  /\ cfg' = CfgUpdate(cfg, cfg_optim)
  /\ OptimEnter("R", cfg')
  /\ UNCHANGED << poses_in, betas_in, trans_in, batch_size,
                  skel_data_init, force_recompute, debug, nb_frames, n_batch, i,
                  i_start, i_end, poses_skel, betas_skel, trans_skel,
                  verts, poses, betas, trans, res_dict, ranges, 
                  export_meshes, disable_viewer, fwd_log, outer_steps, caller, loadvars >>

\* fstep_plot (lines 251-286), called by every closure before fitting_loss,
\* evaluates smpl_verts[to_numpy(mask[0,:,0])] (line 269).  With rot_only the
\* mask is the boolean torso_verts_mask; otherwise it is fitting_mask, built
\* with dtype=torch.float (line 40), and numpy raises IndexError for a float
\* index array when to_numpy keeps the dtype.  to_numpy (skel.alignment.utils)
\* is not part of the source at hand, so both outcomes are kept.
FstepPlotOutcomes(c) == IF c.rot_only THEN {"ok"} ELSE {"ok", "IndexError"}

\* closure(): the first evaluation of fitting_loss in one optimizer.step
Closure ==
  /\ pc = "optim"
  /\ ~StepsDone(step_i, cfg.num_steps)
  /\ "ok" \in FstepPlotOutcomes(cfg)
  /\ loss_dict' = FittingLossDict(poses, betas, trans, verts, cfg)
  /\ fwd_log' = fwd_log \cup { Fwd("closure", ClosureSkelmesh),
                              Fwd("fitting_loss", LossSkelmesh) }
  /\ pc' = "lbfgs"
  /\ UNCHANGED << cfg, poses_in, betas_in, trans_in, batch_size,
                  skel_data_init, force_recompute, debug, nb_frames, n_batch, i,
                  i_start, i_end, poses_skel, betas_skel, trans_skel,
                  verts, poses, betas, trans, stage, step_i, entry,
                  call_log, res_dict, ranges, 
                  export_meshes, disable_viewer, outer_steps, caller, loadvars >>

\* closure() up to the raise in fstep_plot: the forward call of lines 244-249
\* has been made, fitting_loss is not reached; nothing catches the exception
\* in optimizer.step, optim or run_fit
ClosureRaise ==
  /\ pc = "optim"
  /\ ~StepsDone(step_i, cfg.num_steps)
  /\ "IndexError" \in FstepPlotOutcomes(cfg)
  /\ fwd_log' = fwd_log \cup { Fwd("closure", ClosureSkelmesh) }
  /\ pc' = "raised"
  /\ UNCHANGED << cfg, poses_in, betas_in, trans_in, batch_size,
                  skel_data_init, force_recompute, debug, nb_frames, n_batch, i,
                  i_start, i_end, poses_skel, betas_skel, trans_skel,
                  verts, poses, betas, trans, stage, step_i, entry,
                  loss_dict, call_log, res_dict, ranges,
                  export_meshes, disable_viewer, outer_steps, caller, loadvars >>

\* the parameter update of one optimizer.step; loss_dict goes out of scope
LbfgsStep ==
  /\ pc = "lbfgs"
  /\ \E kind \in StepKinds :
       /\ poses' = LbfgsPoses(free_params, poses, cfg, kind)
       /\ trans' = LbfgsTrans(free_params, trans, cfg, kind)
       /\ betas' = LbfgsBetas(free_params, betas, cfg, kind)
  /\ step_i' = step_i + 1
  /\ outer_steps' = outer_steps + 1
  /\ loss_dict' = None
  /\ pc' = "optim"
  /\ UNCHANGED << cfg, poses_in, betas_in, trans_in, batch_size,
                  skel_data_init, force_recompute, debug, nb_frames, n_batch, i,
                  i_start, i_end, poses_skel, betas_skel, trans_skel,
                  verts, stage, entry, call_log, res_dict, ranges, 
                  export_meshes, disable_viewer, fwd_log, caller, loadvars >>

\* the last optim call of the batch returns
OptimReturn ==
  /\ pc = "optim" /\ stage \in {"B", "R"}
  /\ StepsDone(step_i, cfg.num_steps)
  /\ pc' = "save"
  /\ UNCHANGED << cfg, poses_in, betas_in, trans_in, batch_size,
                  skel_data_init, force_recompute, debug, nb_frames, n_batch, i,
                  i_start, i_end, poses_skel, betas_skel, trans_skel,
                  verts, poses, betas, trans, stage, step_i, entry,
                  loss_dict, call_log, res_dict, ranges, 
                  export_meshes, disable_viewer, fwd_log, outer_steps, caller, loadvars >>

\* variant: the following frames are seeded from the first frame of the batch
SavePosesSeedFirst(ps, p, a, b) ==
  [ t \in 1..Len(ps) |->
      IF t <= a THEN ps[t] ELSE IF t <= b THEN p[t - a] ELSE p[1] ]

\* poses_skel[i_start:i_end] = poses; poses_skel[i_end:] = poses[-1:]
SavePoses(ps, p, a, b) ==
  [ t \in 1..Len(ps) |->
      IF t <= a THEN ps[t] ELSE IF t <= b THEN p[t - a] ELSE Last(p) ]

\* trans_skel[i_start:i_end] = trans; trans_skel[i_end:] = trans[-1]
SaveTrans(ts, tr, a, b) ==
  [ t \in 1..Len(ts) |->
      IF t <= a THEN ts[t] ELSE IF t <= b THEN tr[t - a] ELSE Last(tr) ]

\* betas_skel[i_end:] = betas[-1:]
SaveBetas(bs, b_, a, b) ==
  [ t \in 1..Len(bs) |-> IF t <= b THEN bs[t] ELSE Last(b_) ]

\* lines 185-196: write back, seed the following frames, append the results
SaveResult ==
  /\ pc = "save"
  /\ poses_skel' = SavePoses(poses_skel, poses, i_start, i_end)
  /\ trans_skel' = SaveTrans(trans_skel, trans, i_start, i_end)
  /\ betas_skel' = SaveBetas(betas_skel, betas, i_start, i_end)
  /\ skel_data_init' =
       IF FromSource(skel_data_init, force_recompute) THEN skel_data_init
       ELSE [ poses |-> poses_skel', betas |-> betas_skel', trans |-> trans_skel' ]
  /\ res_dict' =
       LET B == Len(poses)
           out_ == [ t \in 1..B |-> SkelForward(poses[t], betas[t], trans[t]) ]
           new ==
             [ poses |-> poses, betas |-> betas, trans |-> trans,
               skel_v |-> [ t \in 1..B |-> SkelMeshVerts(poses[t], betas[t], trans[t]) ],
               skin_v |-> [ t \in 1..B |-> out_[t].skin_verts ],
               smpl_v |-> verts ]
       IN  [ k \in DOMAIN res_dict |-> Append(res_dict[k], new[k]) ]
  /\ fwd_log' = IF export_meshes
                  THEN fwd_log \cup { Fwd("export", ExportSkelmesh) }
                  ELSE fwd_log
  /\ i' = i + 1
  /\ pc' = "loop"
  /\ UNCHANGED << cfg, poses_in, betas_in, trans_in, batch_size,
                  force_recompute, debug, nb_frames, n_batch,
                  i_start, i_end, verts, poses, betas, trans, stage, step_i,
                  entry, loss_dict, call_log, ranges, 
                  export_meshes, disable_viewer, outer_steps, caller, loadvars >>

\* lines 208-210: res_dict[key] = np.concatenate(val)
Finish ==
  /\ pc = "loop" /\ i = n_batch
  /\ res_dict' = [ k \in DOMAIN res_dict |-> Concatenate(res_dict[k]) ]
  /\ pc' = "done"
  /\ UNCHANGED << cfg, poses_in, betas_in, trans_in, batch_size,
                  skel_data_init, force_recompute, debug, nb_frames, n_batch, i,
                  i_start, i_end, poses_skel, betas_skel, trans_skel,
                  verts, poses, betas, trans, stage, step_i, entry,
                  loss_dict, call_log, ranges, 
                  export_meshes, disable_viewer, fwd_log, outer_steps, caller, loadvars >>

\* The locals of a call go out of scope when it ends; self.cfg,
\* self.nb_frames, self.export_meshes and the environment stay for the next
\* call.
DropLocals ==
  /\ pc' = "idle"
  /\ poses_in' = Unset /\ betas_in' = Unset /\ trans_in' = Unset
  /\ batch_size' = 0 /\ skel_data_init' = None
  /\ force_recompute' = FALSE /\ debug' = FALSE
  /\ n_batch' = 0 /\ i' = 0 /\ i_start' = 0 /\ i_end' = 0
  /\ poses_skel' = Unset /\ betas_skel' = Unset /\ trans_skel' = Unset
  /\ verts' = Unset /\ poses' = Unset /\ betas' = Unset /\ trans' = Unset
  /\ stage' = NoStage /\ step_i' = 0 /\ entry' = None
  /\ loss_dict' = None /\ call_log' = << >> /\ ranges' = << >>
  /\ res_dict' = EmptyRes
  /\ fwd_log' = {} /\ outer_steps' = 0 /\ caller' = None
  /\ UNCHANGED << cfg, nb_frames, export_meshes, disable_viewer, loadvars >>

\* line 212: return res_dict
Return ==
  /\ pc = "done"
  /\ DropLocals

\* the exception leaves run_fit; the caller may use the fitter again
Unwind ==
  /\ pc = "raised"
  /\ DropLocals

Next ==
  \/ RunFit \/ LoopSkip \/ GetBatch \/ StageA \/ StageB \/ Refine
  \/ Closure \/ ClosureRaise \/ LbfgsStep \/ OptimReturn \/ SaveResult
  \/ Finish \/ Return \/ Unwind

Spec == Init /\ [][Next]_vars

\* ============================================================= mot_loader
\* bounds of the files drawn
MaxMeta == 10
MaxRows == 3
MaxExcess == 3

\* lines[10] is the header-name row for read_header
HeaderIndex == 10

\* numeric tokens of the data rows
NumTok == << "0.0", "0.5", "1.0", "1.5", "2.0" >>

DataRow(r) == << NumTok[r], NumTok[r + 1] >>

NameRows == { << "time", "a" >>, << "time", "a", "b", "c" >> }

MetaLine == << "version=1" >>

\* a header line that mentions the sentinel inside longer tokens
MentionLine == << "nRows=2", "endheader_follows" >>

EndLine == << "endheader" >>

\* a motion file: n header lines (the first one the mentioning line when
\* mention), the sentinel, the name row, the numeric rows
FileLines(n, mention, has_end, has_names, names, rows) ==
  [ j \in 1..n |-> IF mention /\ j = 1 THEN MentionLine ELSE MetaLine ]
    \o (IF has_end THEN << EndLine >> ELSE << >>)
    \o (IF has_names THEN << names >> ELSE << >>)
    \o [ r \in 1..rows |-> DataRow(r) ]

Files ==
  { [ exists |-> ex, readable |-> rd,
      lines |-> FileLines(n, mn, he, hn, nm, rows) ] :
      ex \in BOOLEAN, rd \in BOOLEAN, n \in {0, 1, MaxMeta - 1, MaxMeta},
      mn \in BOOLEAN,
      he \in BOOLEAN, hn \in BOOLEAN, nm \in NameRows, rows \in 0..MaxRows }

\* str.count(pat) != 0 for one whitespace-free token: pat occurs in it
Contains(tok, pat) ==
  \E k \in 1..(Len(tok) - Len(pat) + 1) :
    SubSeq(tok, k, k + Len(pat) - 1) = pat

\* line.count('endheader') != 0 ('endheader' holds no whitespace, so it
\* occurs in the line exactly when it occurs in one of its tokens)
HasEndheader(line) == \E j \in 1..Len(line) : Contains(line[j], "endheader")

\* 1-based number of the first line containing 'endheader' (i + 1), 0 if none
EndheaderLine(lines) ==
  IF \E j \in 1..Len(lines) : HasEndheader(lines[j])
    THEN CHOOSE j \in 1..Len(lines) :
           /\ HasEndheader(lines[j])
           /\ \A j2 \in 1..(j - 1) : ~HasEndheader(lines[j2])
    ELSE 0

\* what a loader call did: whether it raised, the value it returned, and for
\* storage_to_numpy the arguments of np.genfromtxt and the lines it read as
\* numeric rows (called: the genfromtxt call was reached)
Result(op, raised, value) ==
  [ op |-> op, raised |-> raised, value |-> value,
    called |-> FALSE, names |-> << >>, skip_header |-> 0, read |-> << >> ]

Genfromtxt(op, raised, value, names, skip, read) ==
  [ op |-> op, raised |-> raised, value |-> value,
    called |-> TRUE, names |-> names, skip_header |-> skip, read |-> read ]

read_header(f) ==
  IF ~f.exists THEN Result("read_header", FALSE, << >>)
  ELSE IF ~f.readable \/ Len(f.lines) <= HeaderIndex
    THEN Result("read_header", FALSE, << >>)
    ELSE Result("read_header", FALSE, f.lines[HeaderIndex + 1])

\* column_names[:-excess_header_entries]
DropLast(cols, k) ==
  SubSeq(cols, 1, IF Len(cols) > k THEN Len(cols) - k ELSE 0)

\* variant: the name row is not skipped when the names are passed explicitly
SkipHeaderSame(e, k) == e

\* skip_header as passed to genfromtxt
SkipHeader(e, k) == IF k = 0 THEN e ELSE e + 1

\* the lines np.genfromtxt reads as numeric rows: those after skip_header,
\* less the name row when names=True
DataLines(lines, skip, names_true) ==
  SubSeq(lines, skip + (IF names_true THEN 1 ELSE 0) + 1, Len(lines))

\* storage_to_numpy.  open() raises for a missing or unreadable file; with
\* no 'endheader' line line_number_of_line_containing_endheader is unbound;
\* with 'endheader' on the last line column_names is unbound.  A single
\* numeric row comes back from genfromtxt as a 0-d array, which "for d in
\* data" cannot iterate.  lib is the outcome (TRUE: returns) of the numpy
\* calls in the cases the source does not decide.
storage_to_numpy(f, k, lib) ==
  LET op == "storage_to_numpy"
      e  == EndheaderLine(f.lines)
  IN
  IF ~f.exists \/ ~f.readable THEN Result(op, TRUE, << >>)
  ELSE IF e = 0 THEN Result(op, TRUE, << >>)
  ELSE IF e = Len(f.lines)
    THEN IF k # 0 THEN Result(op, TRUE, << >>)
         ELSE Genfromtxt(op, ~lib, << >>, << >>, SkipHeader(e, k), << >>)
  ELSE
    LET cols  == f.lines[e + 1]
        names == IF k = 0 THEN cols ELSE DropLast(cols, k)
        skip  == SkipHeader(e, k)
        data  == DataLines(f.lines, skip, k = 0)
        fits  == /\ Len(names) > 0
                 /\ \A r \in 1..Len(data) : Len(data[r]) = Len(names)
    IN  IF fits /\ Len(data) = 1
          THEN Genfromtxt(op, TRUE, << >>, names, skip, data)
        ELSE IF fits \/ lib
          THEN Genfromtxt(op, FALSE, data, names, skip, data)
        ELSE Genfromtxt(op, TRUE, << >>, names, skip, data)

InitLoader ==
  /\ file \in Files
  /\ excess \in 0..MaxExcess
  /\ out = None
  /\ pc = "idle"
  /\ cfg = cfg_init
  /\ poses_in = Unset /\ betas_in = Unset /\ trans_in = Unset
  /\ batch_size = 0 /\ skel_data_init = None
  /\ force_recompute = FALSE /\ debug = FALSE
  /\ nb_frames = 0 /\ n_batch = 0 /\ i = 0 /\ i_start = 0 /\ i_end = 0
  /\ poses_skel = Unset /\ betas_skel = Unset /\ trans_skel = Unset
  /\ verts = Unset /\ poses = Unset /\ betas = Unset /\ trans = Unset
  /\ stage = NoStage /\ step_i = 0 /\ entry = None
  /\ loss_dict = None /\ call_log = << >> /\ ranges = << >>
  /\ res_dict = EmptyRes
  /\ export_meshes = FALSE /\ disable_viewer = TRUE
  /\ fwd_log = {} /\ outer_steps = 0 /\ caller = None

\* osim_headers = read_header(mot_file)
ReadHeader ==
  /\ out' = read_header(file)
  /\ UNCHANGED << file, excess, fitvars >>

\* mot_data = storage_to_numpy(mot_file, excess_header_entries)
StorageToNumpy ==
  /\ \E lib \in BOOLEAN : out' = storage_to_numpy(file, excess, lib)
  /\ UNCHANGED << file, excess, fitvars >>

NextLoader == ReadHeader \/ StorageToNumpy

SpecLoader == InitLoader /\ [][NextLoader]_vars

\* ================================================================ claims
InOptim == pc \in {"optim", "lbfgs"}

\* the stages of the optim calls made for batch k, in call order
RECURSIVE StagesOf(_, _)
StagesOf(log, k) ==
  IF Len(log) = 0 THEN << >>
  ELSE IF log[1].batch = k THEN << log[1].stage >> \o StagesOf(Tail(log), k)
       ELSE StagesOf(Tail(log), k)

\* the refinement configuration: cfg_optim merged over the constructor's cfg
IsRefinement(c) == \A k \in DOMAIN cfg_optim : c[k] = cfg_optim[k]

\* the warm-start settings named by the constructor
IsWarmStart(c) ==
  /\ c.rot_only = TRUE /\ c.lr = 1 * Scale /\ c.max_iter = 25
  /\ c.l_verts_loose = 0 /\ c.l_joint = 0

\* ---- C1
\* C1: whatever the debug flag, the returned poses, betas and
\* trans each have leading dimension T.
C1_LengthIsT_AnyDebug ==
  pc = "done" =>
    /\ Len(res_dict.poses) = nb_frames
    /\ Len(res_dict.betas) = nb_frames
    /\ Len(res_dict.trans) = nb_frames

\* ---- C2
Contiguous(rs) ==
  /\ \A k \in 1..Len(rs) : rs[k][1] < rs[k][2]
  /\ Len(rs) > 0 => rs[1][1] = 0
  /\ \A k \in 1..(Len(rs) - 1) : rs[k][2] = rs[k + 1][1]

\* C2: the ranges processed over the ceil(T/batch_size) batches are
\* contiguous, non-empty and cover [0, T) exactly.
C2_RangesCoverAll ==
  pc = "done" =>
    /\ Len(ranges) = n_batch
    /\ Contiguous(ranges)
    /\ Last(ranges)[2] = nb_frames

\* ---- C3
\* C3: when batch i >= 1 has been loaded and not yet optimized, the results
\* of batches 0..i-1 are stored, and the pose, translation and betas of its
\* first frame equal the fitted values of the last frame of batch i-1.
C3_SeedingContinuity ==
  (pc = "batch" /\ i >= 1) =>
    /\ Len(res_dict.poses) = i
    /\ poses[1] = Last(res_dict.poses[i])
    /\ trans[1] = Last(res_dict.trans[i])
    /\ betas[1] = Last(res_dict.betas[i])

C3_Witness ==
  /\ pc = "batch" /\ i >= 1
  /\ Len(res_dict.poses[i]) > 1
  /\ poses[1] = Last(res_dict.poses[i])
  /\ poses[1] # res_dict.poses[i][1]
  /\ poses[1] # InitPoses(poses_in, nb_frames)[i_start + 1]

\* ---- C4
\* C4: batch 0 without prior initialization gets the calls A, B;
\* every other batch, and batch 0 with prior initialization, gets exactly
\* one call.
C4_OneCallEveryOtherBatch ==
  pc = "done" =>
    \A k \in 0..(n_batch - 1) :
      StagesOf(call_log, k) =
        IF k = 0 /\ skel_data_init = None THEN << "A", "B" >> ELSE << "R" >>

\* ---- C5
\* C5: every stage A call, in every run_fit call on the fitter, runs with
\* the warm-start configuration (rot_only, lr 1, max_iter 25,
\* l_verts_loose 0, l_joint 0).
C5_StageAWarmStart ==
  \A n \in 1..Len(call_log) :
    call_log[n].stage = "A" => IsWarmStart(call_log[n].cfg)

\* ---- C6
\* C6: during and after an optim call that runs with rot_only, every pose
\* channel with index >= 3 of every frame of the batch has the value it had
\* on entry of the call.
C6_RotationOnly ==
  (InOptim /\ cfg.rot_only) =>
    \A t \in 1..Len(poses) : \A ch \in (GlobalOrient + 1)..NQ :
      poses[t][ch] = entry.poses[t][ch]

C6_Witness ==
  /\ pc = "optim" /\ cfg.rot_only /\ step_i = cfg.num_steps
  /\ Len(poses) > 1
  /\ \E t \in 1..Len(poses) : poses[t] # entry.poses[t]
  /\ trans # entry.trans

\* ---- C7
\* C7: the breakdown of fitting_loss has no temporal term for a one-frame
\* batch, so the total is the sum of the six other terms; for a longer batch
\* the term is present and equals l_time_loss times the mean squared
\* difference of consecutive poses.
C7_TimeLoss ==
  pc = "lbfgs" =>
    LET B == Len(poses)
        others == { "verts_loss", "verts_loss_loose", "joint_loss",
                    "scapula_loss", "spine_loss", "pose_loss" }
    IN  /\ B = 1 =>
             /\ DOMAIN loss_dict = others
             /\ SumValues(loss_dict, DOMAIN loss_dict) = SumValues(loss_dict, others)
        /\ B > 1 =>
             /\ DOMAIN loss_dict = others \cup { "time_loss" }
             /\ loss_dict["time_loss"] * (B - 1) * NQ
                  = cfg.l_time_loss * K *
                    SumSeq([ t \in 1..(B - 1) |->
                      SumSeq([ ch \in 1..NQ |->
                        (poses[t + 1][ch] - poses[t][ch])
                          * (poses[t + 1][ch] - poses[t][ch]) ]) ])

C7_Witness ==
  /\ pc = "lbfgs" /\ Len(poses) = 1
  /\ "time_loss" \notin DOMAIN loss_dict
  /\ SumValues(loss_dict, DOMAIN loss_dict) > 0
  /\ n_batch > 1

\* ---- C8
\* C8: at the head of the loop of a run_fit call without prior
\* initialization, before any optimization, every frame's pose is the source
\* pose in channels 0..2 and zero elsewhere, its betas are the first 10
\* source coefficients and its translation is the source translation.
C8_InitFromSource ==
  (pc = "loop" /\ i = 0 /\ skel_data_init = None) =>
    /\ Len(poses_skel) = nb_frames
    /\ Len(betas_skel) = nb_frames
    /\ Len(trans_skel) = nb_frames
    /\ \A t \in 1..nb_frames :
         /\ Len(poses_skel[t]) = NQ
         /\ \A ch \in 1..NQ :
              poses_skel[t][ch] = IF ch <= 3 THEN poses_in[t][ch] ELSE 0
         /\ Len(betas_skel[t]) = 10
         /\ \A k \in 1..10 : betas_skel[t][k] = betas_in[k]
         /\ trans_skel[t] = trans_in[t]

C8_Witness ==
  /\ pc = "loop" /\ i = 0 /\ skel_data_init = None
  /\ cfg # cfg_init
  /\ \E t \in 1..nb_frames : poses_in[t][GlobalOrient + 1] # 0
  /\ \E t \in 1..nb_frames : poses_skel[t][1] # 0


\* ---- C9
\* a missing or unreadable file, or one whose header is malformed
Malformed(f) ==
  \/ ~f.exists \/ ~f.readable
  \/ Len(f.lines) < HeaderIndex + 1
  \/ \A j \in 1..Len(f.lines) : ~HasEndheader(f.lines[j])

\* C9: for a malformed input file every loader operation returns an empty
\* result and does not raise.
C9_MalformedIsEmpty ==
  (out # None /\ Malformed(file)) => (~out.raised /\ out.value = << >>)

\* ---- C10
\* C10: when storage_to_numpy reaches np.genfromtxt on a file with a line
\* after 'endheader' (the first line in which the text 'endheader' occurs),
\* the column names are those of that line, all of them
\* for k = 0 and all but the last k for 0 < k <= number of names, and in
\* both cases the numeric rows read are the lines after the name row.
C10_ExcessHeaderEntries ==
  (/\ out # None /\ out.op = "storage_to_numpy" /\ out.called
   /\ EndheaderLine(file.lines) < Len(file.lines)) =>
    LET e    == CHOOSE j \in 1..Len(file.lines) :
                  /\ HasEndheader(file.lines[j])
                  /\ \A j2 \in 1..(j - 1) : ~HasEndheader(file.lines[j2])
        cols == file.lines[e + 1]
        n    == Len(cols)
    IN  /\ excess = 0 => out.names = cols
        /\ (excess > 0 /\ excess <= n) =>
             /\ Len(out.names) = n - excess
             /\ \A j \in 1..(n - excess) : out.names[j] = cols[j]
        /\ out.read = SubSeq(file.lines, e + 2, Len(file.lines))
        /\ ~out.raised => out.value = out.read

C10_Witness ==
  /\ out # None /\ out.op = "storage_to_numpy" /\ ~out.raised
  /\ excess = 2
  /\ out.names = << "time", "a" >>
  /\ Len(out.value) = MaxRows
  /\ out.value[1] = DataRow(1)


\* ---- C11
\* C11: betas is not among the parameters handed to optim, so during and
\* after every optim call the betas of the batch are those the call was
\* entered with; and when no prior initialization is supplied every frame
\* of the returned betas holds the first 10 source coefficients.
C11_BetasFixed ==
  /\ (InOptim \/ pc = "save") => betas = entry.betas
  /\ (pc = "done" /\ skel_data_init = None) =>
       \A t \in 1..Len(res_dict.betas) : \A k \in 1..10 :
         res_dict.betas[t][k] = betas_in[k]

C11_Witness ==
  /\ pc = "done" /\ skel_data_init = None /\ ~debug
  /\ nb_frames >= 2 /\ Len(res_dict.betas) = nb_frames
  /\ res_dict.trans # trans_in
  /\ \A t \in 1..nb_frames : res_dict.betas[t] = SubSeq(betas_in, 1, 10)

\* ---- C12
\* C12: with the viewer disabled and export_meshes false, no forward call made
\* by a closure evaluation of optim has skelmesh = true.
C12_NoMeshForwardHeadless ==
  (disable_viewer /\ ~export_meshes) =>
    \A f \in fwd_log : f.site \in {"closure", "fitting_loss"} => ~f.skelmesh

\* ---- C13
\* optim calls of one run_fit over a number of batches: one per batch, one
\* more when stage A runs
OptimCalls(batches) ==
  batches + (IF TwoStage(0, caller.skel_data_init) THEN 1 ELSE 0)

\* C13: every optim call returns after exactly cfg.num_steps outer steps, and
\* run_fit ends after (ceil(T / batch_size), plus one when stage A runs)
\* * num_steps outer steps, whatever the debug flag.
C13_StepsAllBatches ==
  /\ pc = "save" => step_i = cfg.num_steps
  /\ pc = "done" =>
       outer_steps = OptimCalls(Ceil(nb_frames, batch_size)) * cfg.num_steps

\* ---- C14
\* C14: on return of run_fit the caller's poses_in, betas_in, trans_in and the
\* arrays inside a supplied skel_data_init hold the values they had on entry.
C14_CallerArraysUnchanged ==
  pc = "done" =>
    /\ poses_in = caller.poses_in
    /\ betas_in = caller.betas_in
    /\ trans_in = caller.trans_in
    /\ skel_data_init = caller.skel_data_init


====
